---- MODULE Spec2Model ----
(***************************************************************************)
(* Faculty review API (src/server.js): the in-memory faculty cache, the    *)
(* roster fallback, the rating averages, the roster search and the two     *)
(* write endpoints, over a model of the spreadsheet they read and append.  *)
(*                                                                         *)
(* Strings are sequences of one-character strings, so that trim,           *)
(* toLowerCase and includes are computed and not assumed.  JavaScript      *)
(* values of a request body are records [t, v] tagged with their type.     *)
(* Numbers are integers; time is counted in minutes.                       *)
(***************************************************************************)
EXTENDS Integers, Sequences, FiniteSets, TLC

(***************************************************************************)
(* Strings                                                                 *)
(***************************************************************************)
Empty == << >>
Space == <<" ">>
DrRao == <<"D", "r", ".", " ", "R", "a", "o">>
DrSingh == <<"D", "r", ".", " ", "S", "i", "n", "g", "h">>
PaddedRao == <<" ">> \o DrRao \o <<" ">>
LowerRao == <<"d", "r", ".", " ", "r", "a", "o">>
CS == <<"C", "S">>
Math == <<"M", "a", "t", "h">>
NotSpecified == <<"N", "o", "t", " ", "s", "p", "e", "c", "i", "f", "i", "e", "d">>
NotAvailable == <<"N", "o", "t", " ", "a", "v", "a", "i", "l", "a", "b", "l", "e">>
NaNText == <<"N", "a", "N">>

IsSpace(c) == c = " "

\* String.prototype.toLowerCase, on the letters the model uses
LowerChar(c) ==
  CASE c = "A" -> "a" [] c = "C" -> "c" [] c = "D" -> "d" [] c = "M" -> "m"
    [] c = "N" -> "n" [] c = "O" -> "o" [] c = "R" -> "r" [] c = "S" -> "s"
    [] OTHER -> c

toLowerCase(s) == [i \in 1..Len(s) |-> LowerChar(s[i])]

RECURSIVE TrimStart(_)
TrimStart(s) ==
  IF s # << >> /\ IsSpace(Head(s)) THEN TrimStart(Tail(s)) ELSE s

RECURSIVE TrimEnd(_)
TrimEnd(s) ==
  IF s # << >> /\ IsSpace(s[Len(s)]) THEN TrimEnd(SubSeq(s, 1, Len(s) - 1)) ELSE s

\* String.prototype.trim
trim(s) == TrimEnd(TrimStart(s))

\* String.prototype.includes
includes(s, t) ==
  \E i \in 0..(Len(s) - Len(t)) : SubSeq(s, i + 1, i + Len(t)) = t

(***************************************************************************)
(* JavaScript values and the conversions the handlers apply to them        *)
(***************************************************************************)
Undefined == [t |-> "undefined", v |-> 0]
Null == [t |-> "null", v |-> 0]
NaN == [t |-> "nan", v |-> 0]
Num(n) == [t |-> "number", v |-> n]
Str(s) == [t |-> "string", v |-> s]
Bool(b) == [t |-> "boolean", v |-> b]

DigitChars == <<"0", "1", "2", "3", "4", "5", "6", "7", "8", "9">>
IsDigit(c) == \E i \in 1..10 : DigitChars[i] = c
DigitVal(c) == (CHOOSE i \in 1..10 : DigitChars[i] = c) - 1

RECURSIVE DigitsValue(_)
DigitsValue(s) ==
  IF s = << >> THEN 0
  ELSE 10 * DigitsValue(SubSeq(s, 1, Len(s) - 1)) + DigitVal(s[Len(s)])

RECURSIVE DigitPrefix(_)
DigitPrefix(s) ==
  IF s # << >> /\ IsDigit(Head(s)) THEN <<Head(s)>> \o DigitPrefix(Tail(s)) ELSE << >>

RECURSIVE NatText(_)
NatText(n) ==
  IF n < 10 THEN <<DigitChars[n + 1]>> ELSE NatText(n \div 10) \o <<DigitChars[(n % 10) + 1]>>

\* StringToNumber: blank text is 0, a digit string is its value, anything else NaN
StringToNumber(s) ==
  LET body == trim(s) IN
    IF body = << >> THEN Num(0)
    ELSE IF \A i \in 1..Len(body) : IsDigit(body[i]) THEN Num(DigitsValue(body))
    ELSE NaN

\* ToNumber, as isNaN and the relational operators apply it
ToNumber(x) ==
  CASE x.t = "undefined" -> NaN
    [] x.t = "null" -> Num(0)
    [] x.t = "boolean" -> Num(IF x.v THEN 1 ELSE 0)
    [] x.t = "number" -> x
    [] x.t = "nan" -> NaN
    [] x.t = "string" -> StringToNumber(x.v)

\* the global isNaN
isNaN(x) == ToNumber(x).t = "nan"

\* ToBoolean
Truthy(x) ==
  CASE x.t = "undefined" -> FALSE
    [] x.t = "null" -> FALSE
    [] x.t = "nan" -> FALSE
    [] x.t = "boolean" -> x.v
    [] x.t = "number" -> x.v # 0
    [] x.t = "string" -> x.v # << >>

\* rating < 1 || rating > 5  (a comparison with NaN is false)
OutOfRange(x) ==
  LET n == ToNumber(x) IN n.t = "number" /\ (n.v < 1 \/ n.v > 5)

\* parseInt / parseFloat: the leading digits of the text of x, else NaN
\* (the text of undefined, null, true and false starts with no digit)
ParseNumber(x) ==
  CASE x.t = "number" -> x
    [] x.t = "string" ->
         LET d == DigitPrefix(TrimStart(x.v)) IN
           IF d = << >> THEN NaN ELSE Num(DigitsValue(d))
    [] OTHER -> NaN

(***************************************************************************)
(* Bounds of the model and the one program constant                        *)
(***************************************************************************)
\* CONFIG.CACHE_DURATION, in minutes
CACHE_DURATION == 5
\* rows a sheet may grow to by appends
MaxRows == 1
\* rows of a sheet found at process start, where a specification draws them
MaxInitRows == 3
\* rows of the review sheet found at process start, where averages are computed
MaxAvgRows == 2
\* fields of a review body that differ from a valid one
MaxOdd == 1
MaxCacheRows == 2

\* Date.now() at process start: far more than CACHE_DURATION after the epoch
StartTime == CACHE_DURATION

\* the instants at which something happens: process start, one minute less than
\* CACHE_DURATION later, and CACHE_DURATION later
Instants == {StartTime, StartTime + CACHE_DURATION - 1, StartTime + CACHE_DURATION}

Reqs == {1, 2}

(***************************************************************************)
(* The spreadsheet: a sheet is a sequence of rows, a row a sequence of     *)
(* cell texts.  values.get omits trailing empty cells of a row and         *)
(* trailing empty rows; values.append writes one row after the last.       *)
(***************************************************************************)
\* the text a written value leaves in its cell (NaN is sent as JSON null)
CellText(x) ==
  CASE x.t = "number" -> NatText(x.v)
    [] x.t = "string" -> x.v
    [] OTHER -> Empty

RECURSIVE DropTrailingEmpty(_)
DropTrailingEmpty(s) ==
  IF s # << >> /\ s[Len(s)] = << >> THEN DropTrailingEmpty(SubSeq(s, 1, Len(s) - 1)) ELSE s

\* sheets.spreadsheets.values.get over the first `cols` columns
ReadRange(sheet, cols) ==
  DropTrailingEmpty(
    [i \in 1..Len(sheet) |->
       DropTrailingEmpty(SubSeq(sheet[i], 1, IF Len(sheet[i]) < cols THEN Len(sheet[i]) ELSE cols))])

\* row[i] of a row read from the sheet (0-based i), undefined past its end
CellAt(row, i) == IF i + 1 <= Len(row) THEN Str(row[i + 1]) ELSE Undefined

\* row[i] || ''
CellOrEmpty(row, i) == IF Truthy(CellAt(row, i)) THEN CellAt(row, i).v ELSE Empty

(***************************************************************************)
(* The faculty cache and the roster                                        *)
(***************************************************************************)
NullData == [t |-> "null", v |-> << >>]
Arr(s) == [t |-> "array", v |-> s]
HasData(d) == d.t = "array"

\* the test of getFacultyDataFromSheets on entry
CacheFresh(cache, t) ==
  HasData(cache.data) /\ (t - cache.timestamp) < CACHE_DURATION

\* rows.map((row, index) => ({id: index + 1, ...}))
FacultyOfRow(row, index) ==
  [id |-> index + 1,
   name |-> CellOrEmpty(row, 0),
   department |-> CellOrEmpty(row, 1),
   subject |-> CellOrEmpty(row, 2),
   mobile |-> CellOrEmpty(row, 3)]

NamedOnly(faculty) == trim(faculty.name) # Empty

\* .map(...).filter(faculty => faculty.name.trim() !== '')
RosterFromRows(rows) ==
  SelectSeq([i \in 1..Len(rows) |-> FacultyOfRow(rows[i], i - 1)], NamedOnly)

\* the names without the Set
KeepDuplicates(s) == s

\* [...new Set(names)]: first occurrences, in order
RECURSIVE UniqueInOrder(_)
UniqueInOrder(s) ==
  IF s = << >> THEN << >>
  ELSE LET init == UniqueInOrder(SubSeq(s, 1, Len(s) - 1))
           last == s[Len(s)]
       IN IF \E i \in 1..Len(init) : init[i] = last THEN init ELSE Append(init, last)

Placeholder(name, index) ==
  [id |-> index + 1,
   name |-> name,
   department |-> NotSpecified,
   subject |-> NotSpecified,
   mobile |-> NotAvailable]

\* getFacultyFromReviews on the rows of REVIEWS_SHEET!A2:A
DeriveFromReviews(rows) ==
  LET firsts == [i \in 1..Len(rows) |-> CellAt(rows[i], 0)]
      names == SelectSeq(firsts, Truthy)
      uniqueNames == UniqueInOrder([i \in 1..Len(names) |-> names[i].v])
  IN [i \in 1..Len(uniqueNames) |-> Placeholder(uniqueNames[i], i - 1)]

\* what the fallback returns when its own read fails
FallbackFailed == << >>

FacultyMatches(faculty, term) ==
  \/ includes(toLowerCase(faculty.name), term)
  \/ includes(toLowerCase(faculty.department), term)
  \/ includes(toLowerCase(faculty.subject), term)

\* the search without the trim of the term
searchFacultyUntrimmed(facultyData, searchTerm) ==
  LET term == toLowerCase(searchTerm)
  IN SelectSeq(facultyData, LAMBDA faculty : FacultyMatches(faculty, term))

searchFaculty(facultyData, searchTerm) ==
  LET term == trim(toLowerCase(searchTerm))
  IN SelectSeq(facultyData, LAMBDA faculty : FacultyMatches(faculty, term))

(***************************************************************************)
(* Rating averages                                                         *)
(***************************************************************************)
\* rows.filter(row => row[0] && row[0].toLowerCase().trim() === normalizedFacultyName)
ReviewMatches(row, facultyName) ==
  /\ Truthy(CellAt(row, 0))
  /\ trim(toLowerCase(CellAt(row, 0).v)) = trim(toLowerCase(facultyName))

\* row => row[index] && !isNaN(row[index])
ValidRating(row, index) ==
  Truthy(CellAt(row, index)) /\ ~isNaN(CellAt(row, index))

RECURSIVE SumRatings(_, _)
\* reduce((sum, row) => sum + parseFloat(row[index]), 0): NaN once any term is NaN
SumRatings(rows, index) ==
  IF rows = << >> THEN Num(0)
  ELSE LET rest == SumRatings(SubSeq(rows, 1, Len(rows) - 1), index)
           term == ParseNumber(CellAt(rows[Len(rows)], index))
       IN IF rest.t = "nan" \/ term.t = "nan" THEN NaN ELSE Num(rest.v + term.v)

\* (sum / n).toFixed(1): the text of the quotient rounded to one decimal
ToFixed1(sum, n) ==
  IF sum.t = "nan" THEN Str(NaNText)
  ELSE LET tenths == (20 * sum.v + n) \div (2 * n)
       IN Str(NatText(tenths \div 10) \o <<".">> \o NatText(tenths % 10))

calculateAverage(facultyReviews, index) ==
  LET validReviews == SelectSeq(facultyReviews, LAMBDA row : ValidRating(row, index))
  IN IF Len(validReviews) = 0 THEN Num(0)
     ELSE ToFixed1(SumRatings(validReviews, index), Len(validReviews))

NoAverages == [t |-> "null", v |-> << >>]

\* getFacultyAverages on the rows of REVIEWS_SHEET!A2:I
getFacultyAverages(rows, facultyName) ==
  LET facultyReviews == SelectSeq(rows, LAMBDA row : ReviewMatches(row, facultyName))
  IN IF Len(facultyReviews) = 0 THEN NoAverages
     ELSE [t |-> "object",
           v |-> [teaching |-> calculateAverage(facultyReviews, 1),
                  evaluation |-> calculateAverage(facultyReviews, 2),
                  behaviour |-> calculateAverage(facultyReviews, 3),
                  internals |-> calculateAverage(facultyReviews, 4),
                  classAverage |-> calculateAverage(facultyReviews, 5),
                  overall |-> calculateAverage(facultyReviews, 6),
                  count |-> Len(facultyReviews),
                  latestReview |-> facultyReviews[1]]]

\* what getFacultyAverages returns when its read fails
AveragesFailed == NoAverages

(***************************************************************************)
(* Validation of the two write requests                                    *)
(***************************************************************************)
RatingFields == {"teaching", "evaluation", "behaviour", "internals", "classAverage", "overall"}
RangedFields == {"teaching", "evaluation", "behaviour", "internals", "overall"}

\* !facultyName || isNaN(teaching) || ... || isNaN(overall)
ReviewInputInvalid(body) ==
  ~Truthy(body.name) \/ \E f \in RatingFields : isNaN(body[f])

\* ratings.some(rating => rating < 1 || rating > 5)
ReviewRangeInvalid(body) == \E f \in RangedFields : OutOfRange(body[f])

\* facultyName.trim() exists only on a string
ReviewThrows(body) == body.name.t # "string"

\* new Date().toLocaleString(...): the text of the clock
StampText(t) == NatText(t)

\* reviewData, as the cells it leaves in the sheet
ReviewRow(body, t) ==
  <<trim(body.name.v),
    CellText(ParseNumber(body.teaching)),
    CellText(ParseNumber(body.evaluation)),
    CellText(ParseNumber(body.behaviour)),
    CellText(ParseNumber(body.internals)),
    CellText(ParseNumber(body.classAverage)),
    CellText(ParseNumber(body.overall)),
    StampText(t)>>

\* !name || !department
FacultyInputInvalid(body) == ~Truthy(body.name) \/ ~Truthy(body.department)

\* name.trim(), department.trim(), subject?.trim(), mobile?.trim()
Nullish(x) == x.t = "undefined" \/ x.t = "null"
FacultyThrows(body) ==
  \/ body.name.t # "string"
  \/ body.department.t # "string"
  \/ ~Nullish(body.subject) /\ body.subject.t # "string"
  \/ ~Nullish(body.mobile) /\ body.mobile.t # "string"

\* x?.trim() || ''
TrimOrEmpty(x) == IF Nullish(x) THEN Empty ELSE trim(x.v)

\* facultyData, as the cells it leaves in the sheet
FacultyRow(body) ==
  <<trim(body.name.v), trim(body.department.v), TrimOrEmpty(body.subject), TrimOrEmpty(body.mobile)>>

(***************************************************************************)
(* State                                                                   *)
(***************************************************************************)
VARIABLES
  facultyCache,   \* [data, timestamp]: the module-level cache entry
  now,            \* Date.now(), in minutes
  facultySheet,   \* the rows of FACULTY_SHEET from row 2 on
  reviewsSheet,   \* the rows of REVIEWS_SHEET from row 2 on
  req,            \* per request slot: where its handler is suspended, and its locals
  lastResp,       \* the response sent last
  lastGet,        \* history: the last finished GET /api/faculty, void once a write or a refresh has run
  mustRead        \* history: a write has succeeded and no get() has started since

vars == <<facultyCache, now, facultySheet, reviewsSheet, req, lastResp, lastGet, mustRead>>

NoBody == [name |-> Undefined]

IdleReq ==
  [pc |-> "idle", kind |-> "none", term |-> Undefined, snap |-> << >>,
   body |-> NoBody, row |-> << >>, reads |-> 0]

NoResp ==
  [kind |-> "none", status |-> 0, success |-> FALSE, via |-> "none",
   data |-> << >>, full |-> << >>, reads |-> 0, src |-> << >>, term |-> Undefined,
   body |-> NoBody, averages |-> NoAverages]

NoGet ==
  [valid |-> FALSE, via |-> "none", result |-> << >>, at |-> 0, stamp |-> 0, again |-> FALSE]

\* a new request takes the lowest slot that is free (the slots are interchangeable)
Free(r) == req[r].pc = "idle" /\ \A q \in Reqs : q < r => req[q].pc # "idle"

\* the initial getFacultyDataFromSheets() of the app.listen callback: the cache is
\* empty, so it is waiting for its roster read
StartupLoad == [IdleReq EXCEPT !.pc = "rosterWait", !.kind = "startup", !.reads = 1]

\* facultyCache = { data: null, timestamp: 0 }, both sheets as found
InitWith(faculty, reviews) ==
  /\ facultyCache = [data |-> NullData, timestamp |-> 0]
  /\ now = StartTime
  /\ facultySheet = faculty
  /\ reviewsSheet = reviews
  /\ req = [r \in Reqs |-> IF r = 1 THEN StartupLoad ELSE IdleReq]
  /\ lastResp = NoResp
  /\ lastGet = NoGet
  /\ mustRead = FALSE

(***************************************************************************)
(* getFacultyDataFromSheets, as GET /api/faculty and POST /api/refresh-    *)
(* cache run it.  A handler runs without interruption between two awaits;  *)
(* the spreadsheet serves a read or an append at some later step, and the  *)
(* handler resumes at a later step still when it has shared state to touch.*)
(***************************************************************************)
Returned(value) == [threw |-> FALSE, value |-> value]
Thrown == [threw |-> TRUE, value |-> << >>]

\* the catch block, rethrowing
FallbackRethrown == Thrown

\* the catch block of getFacultyFromReviews
FallbackOutcome == Returned(FallbackFailed)

\* res.json / res.status(500).json of GET /api/faculty and POST /api/refresh-cache
GetResponse(kind, outcome, via, term, reads, src) ==
  IF outcome.threw
  THEN [NoResp EXCEPT !.kind = kind, !.status = 500, !.via = via,
                      !.term = term, !.reads = reads, !.src = src]
  ELSE [NoResp EXCEPT !.kind = kind, !.status = 200, !.success = TRUE,
                      !.via = via, !.term = term, !.reads = reads, !.src = src,
                      !.full = outcome.value,
                      !.data = IF kind = "faculty" /\ Truthy(term)
                               THEN searchFaculty(outcome.value, term.v)
                               ELSE outcome.value]

\* history: the get() that has just returned, for the next one to be compared with
\* (stamp: when the entry it returned was stored; again: it started while the entry
\* returned or stored by the get() before it was younger than CACHE_DURATION)
Finished(kind, outcome, via, stamp, again) ==
  IF kind \in {"faculty", "startup"} /\ ~outcome.threw
  THEN [valid |-> TRUE, via |-> via, result |-> outcome.value, at |-> now,
        stamp |-> stamp, again |-> again]
  ELSE NoGet

\* history: the get() before this one returned or stored the cache entry, no write or
\* refresh has run since, and the entry is younger than CACHE_DURATION
InWindow ==
  /\ lastGet.valid
  /\ lastGet.via \in {"cache", "fresh"}
  /\ (now - lastGet.stamp) < CACHE_DURATION

\* entry of getFacultyDataFromSheets with the cache entry `cache`
GetEntry(r, kind, term, cache) ==
  IF CacheFresh(cache, now)
  THEN /\ lastResp' = GetResponse(kind, Returned(cache.data.v), "cache", term, 0, << >>)
       /\ lastGet' = Finished(kind, Returned(cache.data.v), "cache", cache.timestamp, InWindow)
       /\ req' = [req EXCEPT ![r] = IdleReq]
  ELSE /\ req' = [req EXCEPT ![r] = [IdleReq EXCEPT !.pc = "rosterWait", !.kind = kind,
                                                    !.term = term, !.reads = 1]]
       /\ lastGet' = IF kind = "refresh" THEN NoGet ELSE lastGet
       /\ UNCHANGED lastResp

\* GET /api/faculty?search=term
FacultyStart(r, term) ==
  /\ Free(r)
  /\ GetEntry(r, "faculty", term, facultyCache)
  /\ mustRead' = FALSE
  /\ UNCHANGED <<facultyCache, now, facultySheet, reviewsSheet>>

\* facultyCache.timestamp = 0 of POST /api/refresh-cache
Invalidated(cache) == [cache EXCEPT !.timestamp = 0]

\* POST /api/refresh-cache
RefreshStart(r) ==
  /\ Free(r)
  /\ facultyCache' = Invalidated(facultyCache)
  /\ GetEntry(r, "refresh", Undefined, facultyCache')
  /\ mustRead' = FALSE
  /\ UNCHANGED <<now, facultySheet, reviewsSheet>>

\* the spreadsheet answers the read of FACULTY_SHEET!A2:D
RosterReadOk(r) ==
  /\ req[r].pc = "rosterWait"
  /\ req' = [req EXCEPT ![r].pc = "rosterGot", ![r].snap = ReadRange(facultySheet, 4)]
  /\ UNCHANGED <<facultyCache, now, facultySheet, reviewsSheet, lastResp, lastGet, mustRead>>

\* the store, forgetting the timestamp
StoredUnstamped(facultyData, t) == [data |-> Arr(facultyData), timestamp |-> 0]

\* facultyCache = { data: facultyData, timestamp: Date.now() }
Stored(facultyData, t) == [data |-> Arr(facultyData), timestamp |-> t]

\* the handler resumes after the roster read: map, filter, store, return
RosterStore(r) ==
  /\ req[r].pc = "rosterGot"
  /\ LET facultyData == RosterFromRows(req[r].snap) IN
       /\ facultyCache' = Stored(facultyData, now)
       /\ lastResp' = GetResponse(req[r].kind, Returned(facultyData), "fresh",
                                  req[r].term, req[r].reads, req[r].snap)
       /\ lastGet' = Finished(req[r].kind, Returned(facultyData), "fresh", now, FALSE)
  /\ req' = [req EXCEPT ![r] = IdleReq]
  /\ UNCHANGED <<now, facultySheet, reviewsSheet, mustRead>>

\* the roster read fails: the catch block calls getFacultyFromReviews, which reads
RosterReadFails(r) ==
  /\ req[r].pc = "rosterWait"
  /\ req' = [req EXCEPT ![r].pc = "reviewWait", ![r].reads = req[r].reads + 1]
  /\ UNCHANGED <<facultyCache, now, facultySheet, reviewsSheet, lastResp, lastGet, mustRead>>

\* the fallback, keeping the derived roster in the cache
ReviewsReadOkStoring(r) ==
  /\ req[r].pc = "reviewWait"
  /\ LET rows == ReadRange(reviewsSheet, 1)
         outcome == Returned(DeriveFromReviews(rows)) IN
       /\ facultyCache' = Stored(outcome.value, now)
       /\ lastResp' = GetResponse(req[r].kind, outcome, "derived",
                                  req[r].term, req[r].reads, rows)
       /\ lastGet' = Finished(req[r].kind, outcome, "derived", 0, FALSE)
  /\ req' = [req EXCEPT ![r] = IdleReq]
  /\ UNCHANGED <<now, facultySheet, reviewsSheet, mustRead>>

\* the read of REVIEWS_SHEET!A2:A is answered: the derived roster is returned
ReviewsReadOk(r) ==
  /\ req[r].pc = "reviewWait"
  /\ LET rows == ReadRange(reviewsSheet, 1)
         outcome == Returned(DeriveFromReviews(rows)) IN
       /\ lastResp' = GetResponse(req[r].kind, outcome, "derived",
                                  req[r].term, req[r].reads, rows)
       /\ lastGet' = Finished(req[r].kind, outcome, "derived", 0, FALSE)
  /\ req' = [req EXCEPT ![r] = IdleReq]
  /\ UNCHANGED <<facultyCache, now, facultySheet, reviewsSheet, mustRead>>

\* the read of REVIEWS_SHEET!A2:A fails too
ReviewsReadFails(r) ==
  /\ req[r].pc = "reviewWait"
  /\ lastResp' = GetResponse(req[r].kind, FallbackOutcome, "empty",
                             req[r].term, req[r].reads, << >>)
  /\ lastGet' = Finished(req[r].kind, FallbackOutcome, "empty", 0, FALSE)
  /\ req' = [req EXCEPT ![r] = IdleReq]
  /\ UNCHANGED <<facultyCache, now, facultySheet, reviewsSheet, mustRead>>

(***************************************************************************)
(* POST /api/submit-review and POST /api/add-faculty                       *)
(***************************************************************************)
WriteResponse(kind, status, body) ==
  [NoResp EXCEPT !.kind = kind, !.status = status,
                 !.success = (status = 200), !.body = body]

\* appends asked for and not yet served
Pending(kind) == Cardinality({q \in Reqs : req[q].kind = kind /\ req[q].pc = "appendWait"})

Reject(r, kind, status, body) ==
  /\ lastResp' = WriteResponse(kind, status, body)
  /\ req' = [req EXCEPT ![r] = IdleReq]

AskAppend(r, kind, body, row) ==
  /\ req' = [req EXCEPT ![r] = [IdleReq EXCEPT !.pc = "appendWait", !.kind = kind,
                                                !.body = body, !.row = row]]
  /\ UNCHANGED lastResp

\* POST /api/submit-review, up to the await of values.append
SubmitStart(r, body) ==
  /\ Free(r)
  /\ IF ReviewInputInvalid(body) \/ ReviewRangeInvalid(body)
     THEN Reject(r, "submit", 400, body)
     ELSE IF ReviewThrows(body)
     THEN Reject(r, "submit", 500, body)
     ELSE /\ Len(reviewsSheet) + Pending("submit") < MaxRows
          /\ AskAppend(r, "submit", body, ReviewRow(body, now))
  /\ lastGet' = NoGet
  /\ UNCHANGED <<facultyCache, now, facultySheet, reviewsSheet, mustRead>>

\* POST /api/add-faculty, up to the await of values.append
AddStart(r, body) ==
  /\ Free(r)
  /\ IF FacultyInputInvalid(body)
     THEN Reject(r, "add", 400, body)
     ELSE IF FacultyThrows(body)
     THEN Reject(r, "add", 500, body)
     ELSE /\ Len(facultySheet) + Pending("add") < MaxRows
          /\ AskAppend(r, "add", body, FacultyRow(body))
  /\ lastGet' = NoGet
  /\ UNCHANGED <<facultyCache, now, facultySheet, reviewsSheet, mustRead>>

\* the spreadsheet appends the row
AppendOk(r) ==
  /\ req[r].pc = "appendWait"
  /\ IF req[r].kind = "submit"
     THEN reviewsSheet' = Append(reviewsSheet, req[r].row) /\ UNCHANGED facultySheet
     ELSE facultySheet' = Append(facultySheet, req[r].row) /\ UNCHANGED reviewsSheet
  /\ req' = [req EXCEPT ![r].pc = "appendOk"]
  /\ lastGet' = NoGet
  /\ UNCHANGED <<facultyCache, now, lastResp, mustRead>>

\* the failure path, with the invalidation moved before the await
AppendFailsInvalidating(r) ==
  /\ req[r].pc = "appendWait"
  /\ facultyCache' = [facultyCache EXCEPT !.timestamp = 0]
  /\ lastResp' = WriteResponse(req[r].kind, 500, req[r].body)
  /\ req' = [req EXCEPT ![r] = IdleReq]
  /\ lastGet' = NoGet
  /\ UNCHANGED <<now, facultySheet, reviewsSheet, mustRead>>

\* the append fails: the catch block answers 500
AppendFails(r) ==
  /\ req[r].pc = "appendWait"
  /\ lastResp' = WriteResponse(req[r].kind, 500, req[r].body)
  /\ req' = [req EXCEPT ![r] = IdleReq]
  /\ lastGet' = NoGet
  /\ UNCHANGED <<facultyCache, now, facultySheet, reviewsSheet, mustRead>>

\* the handler resumes after the append: facultyCache.timestamp = 0, then res.json
AppendDone(r) ==
  /\ req[r].pc = "appendOk"
  /\ facultyCache' = Invalidated(facultyCache)
  /\ lastResp' = WriteResponse(req[r].kind, 200, req[r].body)
  /\ req' = [req EXCEPT ![r] = IdleReq]
  /\ lastGet' = NoGet
  /\ mustRead' = TRUE
  /\ UNCHANGED <<now, facultySheet, reviewsSheet>>

(***************************************************************************)
(* GET /api/faculty-averages                                               *)
(***************************************************************************)
\* the answer, with a miss turned into a 404
AveragesResponse404(name, averages, rows) ==
  [NoResp EXCEPT !.kind = "averages", !.status = IF averages.t = "object" THEN 200 ELSE 404,
                 !.success = (averages.t = "object"), !.averages = averages,
                 !.term = name, !.src = rows, !.reads = 1]

\* if (averages) res.json({success: true, ...}) else res.json({success: false, averages: null, ...})
AveragesResponse(name, averages, rows) ==
  [NoResp EXCEPT !.kind = "averages", !.status = 200,
                 !.success = (averages.t = "object"), !.averages = averages,
                 !.term = name, !.src = rows, !.reads = 1]

AveragesStart(r, facultyName) ==
  /\ Free(r)
  /\ req' = [req EXCEPT ![r] = [IdleReq EXCEPT !.pc = "avgWait", !.kind = "averages",
                                                !.term = Str(facultyName), !.reads = 1]]
  /\ UNCHANGED <<facultyCache, now, facultySheet, reviewsSheet, lastResp, lastGet, mustRead>>

\* the read of REVIEWS_SHEET!A2:I is answered
AveragesReadOk(r) ==
  /\ req[r].pc = "avgWait"
  /\ LET rows == ReadRange(reviewsSheet, 9) IN
       lastResp' = AveragesResponse(req[r].term,
                                    getFacultyAverages(rows, req[r].term.v), rows)
  /\ req' = [req EXCEPT ![r] = IdleReq]
  /\ UNCHANGED <<facultyCache, now, facultySheet, reviewsSheet, lastGet, mustRead>>

\* the read fails: getFacultyAverages catches and returns null
AveragesReadFails(r) ==
  /\ req[r].pc = "avgWait"
  /\ lastResp' = AveragesResponse(req[r].term, AveragesFailed, << >>)
  /\ req' = [req EXCEPT ![r] = IdleReq]
  /\ UNCHANGED <<facultyCache, now, facultySheet, reviewsSheet, lastGet, mustRead>>

\* the clock
Tick ==
  /\ \E t \in Instants : t > now /\ \A u \in Instants : u > now => t <= u
  /\ now' = CHOOSE t \in Instants : t > now /\ \A u \in Instants : u > now => t <= u
  /\ UNCHANGED <<facultyCache, facultySheet, reviewsSheet, req, lastResp, lastGet, mustRead>>

(***************************************************************************)
(* Inputs                                                                  *)
(***************************************************************************)
GoodReview ==
  [name |-> Str(DrRao), teaching |-> Num(4), evaluation |-> Num(4), behaviour |-> Num(4),
   internals |-> Num(4), classAverage |-> Num(7), overall |-> Num(4)]
BadReview == [GoodReview EXCEPT !.teaching = Num(6)]

GoodFaculty ==
  [name |-> Str(DrRao), department |-> Str(CS), subject |-> Str(Math), mobile |-> Undefined]
BadFaculty == [GoodFaculty EXCEPT !.department = Undefined]

(***************************************************************************)
(* The server under concurrent requests                                    *)
(***************************************************************************)
Init == InitWith(<< >>, << >>)

Next ==
  \/ Tick
  \/ \E r \in Reqs :
       \/ FacultyStart(r, Undefined)
       \/ RefreshStart(r)
       \/ RosterReadOk(r)
       \/ RosterStore(r)
       \/ RosterReadFails(r)
       \/ ReviewsReadOk(r)
       \/ ReviewsReadFails(r)
       \/ \E body \in {GoodReview, BadReview} : SubmitStart(r, body)
       \/ \E body \in {GoodFaculty, BadFaculty} : AddStart(r, body)
       \/ AppendOk(r)
       \/ AppendFails(r)
       \/ AppendDone(r)

Spec == Init /\ [][Next]_vars

(***************************************************************************)
(* Claims about the cache under concurrent requests (Spec)                 *)
(***************************************************************************)
\* a GET /api/faculty served at once from the cache: the data it must return
ServedFromCache(r, result) ==
  /\ req'[r].pc = "idle"
  /\ lastResp'.kind = "faculty"
  /\ lastResp'.via = "cache"
  /\ lastResp'.reads = 0
  /\ lastResp'.full = result

\* C1 as stated: whatever the first get() found, a second get() that starts less
\* than CACHE_DURATION after the first returned, with no submit-review, add-faculty
\* or refresh-cache in between, returns the first one's roster and reads nothing.
C1_AnySourceState ==
  [][\A r \in Reqs :
       (FacultyStart(r, Undefined) /\ lastGet.valid /\ (now - lastGet.at) < CACHE_DURATION)
         => ServedFromCache(r, lastGet.result)]_vars

\* C1 amended: if the first of two consecutive get() calls returned the cache entry
\* or stored a roster read, and the second starts less than CACHE_DURATION after that
\* entry was stored, with no submit-review, add-faculty or refresh-cache in between,
\* then the second returns the same roster and issues no remote read.
C1_CacheIdempotence ==
  [][\A r \in Reqs :
       (FacultyStart(r, Undefined) /\ InWindow) => ServedFromCache(r, lastGet.result)]_vars

\* a second get() has been served inside the window, later than the entry was stored
C1_Witness ==
  /\ lastGet.valid /\ lastGet.again
  /\ lastGet.result # << >>
  /\ lastGet.at > lastGet.stamp
  /\ lastResp.kind = "faculty" /\ lastResp.via = "cache" /\ lastResp.reads = 0

\* C2: the first get() to start after a submit-review or add-faculty has succeeded
\* issues a roster read, whatever else is in flight.
C2_Invalidation ==
  [][\A r \in Reqs :
       (FacultyStart(r, Undefined) /\ mustRead) => req'[r].pc = "rosterWait"]_vars

\* C5: get() never raises: GET /api/faculty, the refresh and the start-up load all
\* get a sequence back, whichever reads failed, and the empty one when both failed.
C5_FailsOpen ==
  lastResp.kind \in {"faculty", "refresh", "startup"} =>
    /\ lastResp.status = 200
    /\ lastResp.via \in {"cache", "fresh", "derived", "empty"}
    /\ lastResp.via = "empty" => lastResp.full = << >> /\ lastResp.data = << >>

\* both reads of a GET /api/faculty have failed, and it was answered
C5_Witness ==
  lastResp.kind = "faculty" /\ lastResp.via = "empty" /\ lastResp.reads = 2

\* C7: a write whose append fails is answered 500 and leaves the cache entry as it
\* was; a write changes the entry only once its append has succeeded, and then only
\* the timestamp, to 0.
C7_AppendFailure ==
  [][\A r \in Reqs :
       /\ (req[r].pc = "appendWait" /\ req'[r].pc = "idle") =>
            /\ lastResp'.kind = req[r].kind
            /\ lastResp'.status = 500 /\ ~lastResp'.success
            /\ facultyCache' = facultyCache
       /\ (req[r].kind \in {"submit", "add"} /\ req'[r] # req[r] /\ facultyCache' # facultyCache) =>
            /\ req[r].pc = "appendOk"
            /\ facultyCache' = [facultyCache EXCEPT !.timestamp = 0]
            /\ lastResp'.status = 200]_vars

\* an append has failed while the cache held a roster with a timestamp
C7_Witness ==
  /\ lastResp.kind \in {"submit", "add"} /\ lastResp.status = 500
  /\ HasData(facultyCache.data) /\ facultyCache.timestamp # 0

(***************************************************************************)
(* The roster endpoints over the sheets found at process start (SpecData)  *)
(***************************************************************************)
RECURSIVE SeqsUpTo(_, _)
\* the sequences of at most n elements of S
SeqsUpTo(S, n) ==
  IF n = 0 THEN {<< >>}
  ELSE LET shorter == SeqsUpTo(S, n - 1)
       IN shorter \cup {Append(q, x) : q \in shorter, x \in S}

Phone == <<"9", "8">>
Four == <<"4">>

\* rows of the faculty sheet: full, short, with a blank name, empty
RosterRows == {<<DrRao, CS, Math, Phone>>, <<DrSingh, Math>>, <<Space, CS>>, << >>}

\* rows of the review sheet, by their first cell
ReviewNameRows == {<<DrRao, Four>>, <<DrSingh, Four>>, <<Space, Four>>, <<Empty, Four>>}

SearchTerms ==
  {Undefined, Str(Space), Str(<<"r", "a", "o">>), Str(<<"R", "A", "O", " ">>),
   Str(<<" ", "m", "a", "t", "h">>), Str(<<"9">>)}

InitData ==
  \/ \E faculty \in SeqsUpTo(RosterRows, MaxInitRows) : InitWith(faculty, << >>)
  \/ \E reviews \in SeqsUpTo(ReviewNameRows, MaxInitRows) : InitWith(<< >>, reviews)

\* one request at a time, after the start-up load
NextData ==
  \E r \in {1} :
    \/ \E term \in SearchTerms : FacultyStart(r, term)
    \/ RosterReadOk(r)
    \/ RosterStore(r)
    \/ RosterReadFails(r)
    \/ ReviewsReadOk(r)
    \/ ReviewsReadFails(r)

SpecData == InitData /\ [][NextData]_vars

\* the first cells of the review sheet that hold a name
ReviewNames == {reviewsSheet[i][1] : i \in {j \in 1..Len(reviewsSheet) : reviewsSheet[j][1] # Empty}}

FirstRowOf(name) ==
  CHOOSE i \in 1..Len(reviewsSheet) :
    reviewsSheet[i][1] = name /\ \A j \in 1..(i - 1) : reviewsSheet[j][1] # name

\* C4: when the roster read fails and the review read succeeds, get() returns one
\* record per distinct name of the review sheet's first column, in order of first
\* occurrence, with the placeholder department, subject and mobile and ids 1..k.
C4_DerivedRoster ==
  lastResp.via = "derived" =>
    LET roster == lastResp.full IN
      /\ {roster[i].name : i \in 1..Len(roster)} = ReviewNames
      /\ Len(roster) = Cardinality(ReviewNames)
      /\ \A i \in 1..Len(roster) :
           /\ roster[i].id = i
           /\ roster[i].department = NotSpecified
           /\ roster[i].subject = NotSpecified
           /\ roster[i].mobile = NotAvailable
      /\ \A i, j \in 1..Len(roster) :
           i < j => FirstRowOf(roster[i].name) < FirstRowOf(roster[j].name)

\* the rows Dr. Rao, Dr. Rao, Dr. Singh have been derived into two records
C4_Witness ==
  /\ lastResp.via = "derived"
  /\ reviewsSheet = <<<<DrRao, Four>>, <<DrRao, Four>>, <<DrSingh, Four>>>>
  /\ Len(lastResp.full) = 2
  /\ lastResp.full[1].name = DrRao /\ lastResp.full[2].name = DrSingh

\* t occurs in s at offset k
OccursAt(s, t, k) == k + Len(t) <= Len(s) /\ \A i \in 1..Len(t) : s[k + i] = t[i]
Occurs(s, t) == \E k \in 0..Len(s) : OccursAt(s, t, k)

\* the record is one the search for the trimmed, lower-cased t keeps
Kept(faculty, t) ==
  LET term == trim(toLowerCase(t)) IN
    \/ Occurs(toLowerCase(faculty.name), term)
    \/ Occurs(toLowerCase(faculty.department), term)
    \/ Occurs(toLowerCase(faculty.subject), term)

\* the indices of R whose records are kept, in increasing order
RECURSIVE KeptOf(_, _)
KeptOf(R, t) ==
  IF R = << >> THEN << >>
  ELSE LET init == KeptOf(SubSeq(R, 1, Len(R) - 1), t)
       IN IF Kept(R[Len(R)], t) THEN Append(init, R[Len(R)]) ELSE init

C11_NamesNonEmpty ==
  (lastResp.kind \in {"startup", "faculty", "refresh"} /\ lastResp.status = 200) =>
    \A i \in 1..Len(lastResp.full) : trim(lastResp.full[i].name) # Empty

(***************************************************************************)
(* The cache entry over the sheets found at process start, under           *)
(* concurrent requests (SpecCache)                                         *)
(***************************************************************************)
\* rows of the faculty sheet: one that is kept, one with a blank name
CacheRosterRows == {<<DrRao, CS, Math, Phone>>, <<Space, CS>>}

CacheReviewSheets == {<< >>, <<<<DrSingh, Four>>>>}

InitCache ==
  \E faculty \in SeqsUpTo(CacheRosterRows, MaxCacheRows), reviews \in CacheReviewSheets :
    InitWith(faculty, reviews)

\* every endpoint that touches the cache, at one instant
NextCache ==
  \E r \in Reqs :
    \/ FacultyStart(r, Undefined)
    \/ RefreshStart(r)
    \/ RosterReadOk(r)
    \/ RosterStore(r)
    \/ RosterReadFails(r)
    \/ ReviewsReadOk(r)
    \/ ReviewsReadFails(r)
    \/ SubmitStart(r, GoodReview)
    \/ AddStart(r, GoodFaculty)
    \/ AppendOk(r)
    \/ AppendFails(r)
    \/ AppendDone(r)

SpecCache == InitCache /\ [][NextCache]_vars

\* the faculty sheet only grows, so what a roster read has returned is the range of
\* a prefix of the sheet as it is now
RosterReads == {ReadRange(SubSeq(facultySheet, 1, k), 4) : k \in 0..Len(facultySheet)}

CacheHoldsRosterRead ==
  \/ facultyCache.data = NullData
  \/ \E rows \in RosterReads : facultyCache.data = Arr(RosterFromRows(rows))

\* the steps of a get() on its fallback path
FallbackStep(r) ==
  \/ req[r].pc = "rosterWait" /\ req'[r].pc = "reviewWait"
  \/ req[r].pc = "reviewWait" /\ req'[r].pc = "idle"

\* the step stores the roster read that request r was given, whole and filtered
StoresRosterRead(r) ==
  /\ req[r].pc = "rosterGot" /\ req'[r].pc = "idle"
  /\ req[r].snap \in RosterReads
  /\ facultyCache' = [data |-> Arr(RosterFromRows(req[r].snap)), timestamp |-> now]

\* the step is an invalidation by request r: a write whose append has succeeded, or
\* the entry of a refresh
InvalidatesOnly(r) ==
  /\ \/ req[r].kind \in {"submit", "add"} /\ req[r].pc = "appendOk" /\ req'[r].pc = "idle"
     \/ req[r].pc = "idle" /\ req'[r].kind = "refresh"
  /\ facultyCache'.data = facultyCache.data
  /\ facultyCache'.timestamp = 0

\* C12: the cache data is always null or the whole filtered result of one successful
\* roster read; a get() on its fallback path, derived or empty, leaves data and
\* timestamp as they were; and the entry changes only by the store of a roster read
\* or by an invalidation, which sets the timestamp to 0 and keeps the data.
C12_CacheContents ==
  /\ []CacheHoldsRosterRead
  /\ [][/\ \A r \in Reqs : FallbackStep(r) => facultyCache' = facultyCache
        /\ facultyCache' # facultyCache =>
             \E r \in Reqs : StoresRosterRead(r) \/ InvalidatesOnly(r)]_vars

\* a roster with a row dropped is cached and invalidated, and a get() has since
\* answered with the roster derived from the reviews
C12_Witness ==
  /\ HasData(facultyCache.data) /\ facultyCache.data.v # << >>
  /\ Len(facultyCache.data.v) < Len(facultySheet)
  /\ facultyCache.timestamp = 0
  /\ lastResp.via = "derived" /\ lastResp.full # << >>

(***************************************************************************)
(* The write endpoints over the bodies a client can send (SpecSubmit, SpecAdd)*)
(***************************************************************************)
NameValues == {Undefined, Null, Str(Empty), Str(Space), Str(DrRao), Str(PaddedRao), Num(7)}

RatingValues ==
  {Undefined, Null, Str(Empty), Str(Space), Str(<<"a", "b", "c">>), Str(<<"3">>),
   Num(0), Num(4), Num(6), Bool(TRUE)}

\* the values a client may put in a field of a review
FieldValues(f) == IF f = "name" THEN NameValues ELSE RatingValues

RECURSIVE OddReviews(_)
\* GoodReview with at most k fields replaced
OddReviews(k) ==
  IF k = 0 THEN {GoodReview}
  ELSE LET fewer == OddReviews(k - 1)
       IN fewer \cup {[b EXCEPT ![f] = x] :
                        b \in fewer, f \in RatingFields \cup {"name"}, x \in RatingValues \cup NameValues}

ReviewBodies == {b \in OddReviews(MaxOdd) : \A f \in DOMAIN b : b[f] \in FieldValues(f)}

\* GoodFaculty with at most MaxOdd of name, department and subject replaced
FacultyBodies ==
  {b \in {[name |-> n, department |-> d, subject |-> u, mobile |-> Undefined] :
            n \in NameValues,
            d \in {Undefined, Str(Empty), Str(Space), Str(CS), Num(7)},
            u \in {Undefined, Str(Math), Str(Space), Num(1)}} :
     Cardinality({f \in {"name", "department", "subject"} : b[f] # GoodFaculty[f]}) <= MaxOdd}

InitWrite == InitWith(<< >>, << >>)

\* POST /api/submit-review, one request at a time, after the start-up load
NextSubmit ==
  \E r \in {1} :
    \/ \E body \in ReviewBodies : SubmitStart(r, body)
    \/ AppendOk(r)
    \/ AppendFails(r)
    \/ AppendDone(r)
    \/ RosterReadOk(r)
    \/ RosterStore(r)
    \/ RosterReadFails(r)
    \/ ReviewsReadOk(r)
    \/ ReviewsReadFails(r)

SpecSubmit == InitWrite /\ [][NextSubmit]_vars

\* POST /api/add-faculty, one request at a time, after the start-up load
NextAdd ==
  \E r \in {1} :
    \/ \E body \in FacultyBodies : AddStart(r, body)
    \/ AppendOk(r)
    \/ AppendFails(r)
    \/ AppendDone(r)
    \/ RosterReadOk(r)
    \/ RosterStore(r)
    \/ RosterReadFails(r)
    \/ ReviewsReadOk(r)
    \/ ReviewsReadFails(r)

SpecAdd == InitWrite /\ [][NextAdd]_vars

\* the value is the text of a whole number, or a number
Numeric(x) ==
  \/ x.t = "number"
  \/ x.t = "string" /\ trim(x.v) # Empty /\ \A i \in 1..Len(trim(x.v)) : IsDigit(trim(x.v)[i])

NumericValue(x) == IF x.t = "number" THEN x.v ELSE DigitsValue(trim(x.v))

\* the request is one C3 says is refused: no name, a rating that is no number, or one
\* of teaching, evaluation, behaviour, internals, overall outside [1, 5]
\* (classAverage is a class statistic and has no range)
RefusedReview(body) ==
  \/ body.name.t \in {"undefined", "null"} \/ body.name = Str(Empty)
  \/ \E f \in RatingFields : ~Numeric(body[f])
  \/ \E f \in RangedFields :
       Numeric(body[f]) /\ (NumericValue(body[f]) < 1 \/ NumericValue(body[f]) > 5)

\* C3: a submit-review with no name, a non-numeric rating or a rating outside
\* [1, 5] is answered 400 and never reaches the append.
C3_RejectsInvalidReview ==
  /\ (lastResp.kind = "submit" /\ RefusedReview(lastResp.body)) => lastResp.status = 400
  /\ \A r \in Reqs :
       (req[r].kind = "submit" /\ req[r].pc \in {"appendWait", "appendOk"})
         => ~RefusedReview(req[r].body)

\* missing, empty or whitespace-only
Blank(x) == x.t \in {"undefined", "null"} \/ (x.t = "string" /\ trim(x.v) = Empty)

\* C10: an add-faculty whose name or department is missing, empty or whitespace-only
\* is answered 400 and never reaches the append.
C10_RejectsBlankFaculty ==
  /\ (lastResp.kind = "add" /\ (Blank(lastResp.body.name) \/ Blank(lastResp.body.department)))
       => lastResp.status = 400
  /\ \A r \in Reqs :
       (req[r].kind = "add" /\ req[r].pc \in {"appendWait", "appendOk"})
         => ~Blank(req[r].body.name) /\ ~Blank(req[r].body.department)

(***************************************************************************)
(* GET /api/faculty-averages over the review rows found at start (SpecAvg) *)
(***************************************************************************)
Five == <<"5">>
Three == <<"3">>
Word == <<"x">>

\* review rows: a name, a teaching cell, an evaluation cell; or a name alone
AverageRows ==
  {<<n, c, Three>> : n \in {DrRao, LowerRao, DrSingh}, c \in {Four, Five, Empty, Space, Word}}
    \cup {<<DrRao>>}

AverageNames == {DrRao, PaddedRao, DrSingh}

InitAvg == \E reviews \in SeqsUpTo(AverageRows, MaxAvgRows) : InitWith(<< >>, reviews)

\* one request at a time, after the start-up load
NextAvg ==
  \E r \in {1} :
    \/ \E name \in AverageNames : AveragesStart(r, name)
    \/ AveragesReadOk(r)
    \/ AveragesReadFails(r)
    \/ RosterReadOk(r)
    \/ RosterStore(r)
    \/ RosterReadFails(r)
    \/ ReviewsReadOk(r)
    \/ ReviewsReadFails(r)

SpecAvg == InitAvg /\ [][NextAvg]_vars

\* the rows of the sheet that are reviews of the faculty named
RowsOf(name) ==
  {i \in 1..Len(reviewsSheet) :
     /\ reviewsSheet[i] # << >>
     /\ reviewsSheet[i][1] # Empty
     /\ trim(toLowerCase(reviewsSheet[i][1])) = trim(toLowerCase(name))}

AnsweredAverages == lastResp.kind = "averages" /\ lastResp.reads = 1 /\ lastResp.src # << >>

\* C6 as stated: no row matches, so the answer is a success envelope with null averages.
C6_SuccessEnvelope ==
  (AnsweredAverages /\ RowsOf(lastResp.term.v) = {}) =>
    /\ lastResp.averages = NoAverages
    /\ lastResp.status = 200
    /\ lastResp.success

\* C6 amended: when no review row matches the name, getFacultyAverages returns null
\* and the endpoint answers 200, not 404, with averages = null and success = false.
C6_NullAveragesNot404 ==
  (AnsweredAverages /\ RowsOf(lastResp.term.v) = {}) =>
    /\ lastResp.averages = NoAverages
    /\ lastResp.status = 200
    /\ ~lastResp.success

\* averages were asked for a name that none of the rows read carries
C6_Witness ==
  /\ AnsweredAverages /\ RowsOf(lastResp.term.v) = {} /\ reviewsSheet # << >>
  /\ lastResp.averages = NoAverages

Categories == <<"teaching", "evaluation", "behaviour", "internals", "classAverage", "overall">>

\* the cell of column i of the row is present and is the text of a number
FiniteCell(row, i) ==
  /\ i + 1 <= Len(row)
  /\ trim(row[i + 1]) # Empty
  /\ \A k \in 1..Len(trim(row[i + 1])) : IsDigit(trim(row[i + 1])[k])

\* C9: a category in which no matching row holds a number averages exactly 0.
C9_ZeroWithoutNumbers ==
  (AnsweredAverages /\ lastResp.averages.t = "object") =>
    \A i \in 1..6 :
      (\A j \in RowsOf(lastResp.term.v) : ~FiniteCell(reviewsSheet[j], i))
        => lastResp.averages.v[Categories[i]] = Num(0)

====
